---- MODULE Spec2Model ----
(***************************************************************************)
(* RescueLink: the voice-session hook useVapi in its two versions (the     *)
(* transfer hook src/src/hooks/useVapi.ts and the retrying hook            *)
(* src/unnamed/part_000), the VoiceEmergencyInterface component that uses  *)
(* it, the App that mounts the component, and the mocked dispatch service  *)
(* (src/src/services/emergencyDispatch.ts).                                *)
(*                                                                         *)
(* React state is modelled by one variable per useState cell.  A handler   *)
(* registered inside useEffect(..., []) keeps the bindings of the first    *)
(* render for the life of the component, so what such a handler reads is   *)
(* the value of the first render (mountRender), not the current state.     *)
(* Every await is a separate step: an asynchronous function is a run       *)
(* record whose pc names the await (or timer) it is suspended at.          *)
(***************************************************************************)
EXTENDS Bags, FiniteSets, Integers, Sequences, TLC

\* ------------------------------------------------------------------ bounds
\* concurrent runs of initiateEmergencyTransfer / initiateCallTransfer
MaxRuns == 2
\* saturation value of the history counters (attempts, submits)
MaxCount == 4
\* saturation value of the count of keep-alive intervals left scheduled
MaxIntervals == 1

Min(a, b) == IF a < b THEN a ELSE b

Bump(n) == Min(n + 1, MaxCount)

\* ------------------------------------------------------- emergency data
\* EmergencyData restricted to the fields the control flow reads:
\* emergencyType, location.address and dispatchId ("" = field absent).
NoData == [emergencyType |-> "", location |-> "", dispatchId |-> ""]

DataValues ==
  { [emergencyType |-> t, location |-> a, dispatchId |-> ""] :
      t \in {"", "medical"}, a \in {"", "MG Road"} }

\* { ...a, ...b }
Spread(a, b) ==
  [emergencyType |-> IF b.emergencyType # "" THEN b.emergencyType ELSE a.emergencyType,
   location      |-> IF b.location # "" THEN b.location ELSE a.location,
   dispatchId    |-> IF b.dispatchId # "" THEN b.dispatchId ELSE a.dispatchId]

\* data.emergencyType && data.location?.address
Dispatchable(data) == data.emergencyType # "" /\ data.location # ""

\* --------------------------------------------------- transcript text
\* A transcript is a sequence of lexemes: words, the braces, and the
\* members of a JSON object (separating commas elided).
Marker == "EMERGENCY_DATA_COLLECTED"

TypeMember == "\"emergencyType\":\"medical\""

LocationKey == "\"location\":"

AddressMember == "\"address\":\"MG Road\""

UrgencyMember == "\"urgencyLevel\":5"

\* the format the system prompt prescribes to the assistant
PrescribedJson ==
  << "{", TypeMember, LocationKey, "{", AddressMember, "}", UrgencyMember, "}" >>

FlatJson == << "{", TypeMember, UrgencyMember, "}" >>

Transcripts ==
  { << "hello" >>,
    << "please", "HELP" >>,
    << "the", "pain", "is", "urgent" >>,
    << Marker >>,
    << Marker >> \o FlatJson,
    << Marker >> \o PrescribedJson,
    << Marker, "{", "pending", "}" >> }

\* String.prototype.toLowerCase on one lexeme
toLowerCase(w) ==
  CASE w = "HELP" -> "help"
    [] w = Marker -> "emergency_data_collected"
    [] w = TypeMember -> "\"emergencytype\":\"medical\""
    [] w = AddressMember -> "\"address\":\"mg road\""
    [] w = LocationKey -> "\"location\":"
    [] w = UrgencyMember -> "\"urgencylevel\":5"
    [] OTHER -> w

\* the lower-case lexemes of the alphabet that contain one of the
\* single-word entries of emergencyPhrases as a substring
\* ('help', 'urgent', 'emergency')
includesPhrase(lw) ==
  lw \in { "help", "urgent", "emergency_data_collected",
           "\"emergencytype\":\"medical\"", "\"urgencylevel\":5" }

\* emergencyPhrases.some(phrase => transcript.includes(phrase))
isEmergencyDetected(text) ==
  \E i \in 1..Len(text) : includesPhrase(toLowerCase(text[i]))

\* message.transcript.includes('EMERGENCY_DATA_COLLECTED')
includesMarker(text) == \E i \in 1..Len(text) : text[i] = Marker

\* message.transcript.match(/\{[^}]*\}/): the leftmost "{" up to the first
\* "}" that follows it; << >> when there is no match.
jsonMatch(text) ==
  LET opens == { i \in 1..Len(text) : text[i] = "{" }
  IN  IF opens = {} THEN << >>
      ELSE LET first == CHOOSE i \in opens : \A j \in opens : i <= j
               closes == { j \in first..Len(text) : text[j] = "}" }
           IN  IF closes = {} THEN << >>
               ELSE LET last == CHOOSE j \in closes : \A k \in closes : j <= k
                    IN  SubSeq(text, first, last)

\* JSON.parse on a lexeme sequence: object ::= "{" member* "}",
\* member ::= scalar member | "location": object.
\* A result is [ok, next, obj]; ok = FALSE is the SyntaxError.
ParseFail == [ok |-> FALSE, next |-> 0, obj |-> [emergencyType |-> "", address |-> "", location |-> ""]]

RECURSIVE parseObject(_, _)
RECURSIVE parseMembers(_, _, _)

parseMembers(toks, i, acc) ==
  IF i > Len(toks) THEN ParseFail
  ELSE IF toks[i] = "}" THEN [ok |-> TRUE, next |-> i + 1, obj |-> acc]
  ELSE IF toks[i] = TypeMember
         THEN parseMembers(toks, i + 1, [acc EXCEPT !.emergencyType = "medical"])
  ELSE IF toks[i] = AddressMember
         THEN parseMembers(toks, i + 1, [acc EXCEPT !.address = "MG Road"])
  ELSE IF toks[i] = UrgencyMember
         THEN parseMembers(toks, i + 1, acc)
  ELSE IF toks[i] = LocationKey
         THEN LET r == parseObject(toks, i + 1)
              IN  IF r.ok
                    THEN parseMembers(toks, r.next, [acc EXCEPT !.location = r.obj.address])
                    ELSE ParseFail
  ELSE ParseFail

parseObject(toks, i) ==
  IF i > Len(toks) \/ toks[i] # "{" THEN ParseFail
  ELSE parseMembers(toks, i + 1, ParseFail.obj)

JSONparse(toks) ==
  LET r == parseObject(toks, 1)
  IN  IF r.ok /\ r.next = Len(toks) + 1
        THEN [ok |-> TRUE,
              obj |-> [emergencyType |-> r.obj.emergencyType,
                       location |-> r.obj.location, dispatchId |-> ""]]
        ELSE [ok |-> FALSE, obj |-> NoData]

\* lines 181-195 / 540-554 up to the parse: the object the handler obtains
\* from a transcript, or ok = FALSE when nothing is stored and no transfer
\* is started (no marker, no regex match, or JSON.parse threw)
collectedData(text) ==
  IF ~includesMarker(text) THEN [ok |-> FALSE, obj |-> NoData]
  ELSE LET m == jsonMatch(text)
       IN  IF m = << >> THEN [ok |-> FALSE, obj |-> NoData] ELSE JSONparse(m)

\* ------------------------------------------- dispatch service (US)
\* emergencyContacts['US'], in declaration order
USContacts ==
  << [service |-> "Emergency Services (911)", priority |-> 1,
      capabilities |-> {"medical", "fire", "crime", "other"}],
     [service |-> "Fire Department", priority |-> 2, capabilities |-> {"fire"}],
     [service |-> "Police Department", priority |-> 2, capabilities |-> {"crime"}],
     [service |-> "Emergency Medical Services", priority |-> 2, capabilities |-> {"medical"}],
     [service |-> "Poison Control", priority |-> 3, capabilities |-> {"medical"}],
     [service |-> "Crisis Hotline", priority |-> 3, capabilities |-> {"other"}] >>

Priorities == { USContacts[i].priority : i \in 1..Len(USContacts) }

RECURSIVE ByPriority(_, _)
\* contacts of sequence s with priority >= p, by ascending priority, contacts
\* of equal priority in the order of s
ByPriority(s, p) ==
  IF \A q \in Priorities : q < p THEN << >>
  ELSE SelectSeq(s, LAMBDA c : c.priority = p) \o ByPriority(s, p + 1)

RECURSIVE ByPriorityDesc(_, _)
ByPriorityDesc(s, p) ==
  IF \A q \in Priorities : q > p THEN << >>
  ELSE SelectSeq(s, LAMBDA c : c.priority = p) \o ByPriorityDesc(s, p - 1)

sortByPriority_descending(s) == ByPriorityDesc(s, 3)

\* Array.prototype.sort((a, b) => a.priority - b.priority), a stable sort
sortByPriority(s) == ByPriority(s, 1)

\* getRelevantServices(emergencyType, urgencyLevel)
getRelevantServices(emergencyType, urgencyLevel) ==
  sortByPriority(
    SelectSeq(USContacts,
              LAMBDA c : \/ emergencyType \in c.capabilities
                         \/ "other" \in c.capabilities
                         \/ (urgencyLevel >= 4 /\ c.priority = 1)))

\* the loop of dispatchEmergencyServices leaves after this iteration
loopBreaks(urgencyLevel, contacted) ==
  IF urgencyLevel >= 4 /\ Len(contacted) >= 2 THEN TRUE
  ELSE Len(contacted) >= 1

\* baseResponseTimes, in tenths of a minute after the urgency adjustment
baseTime10(emergencyType, urgencyLevel) ==
  LET base == CASE emergencyType = "medical" -> 8
                [] emergencyType = "fire" -> 6
                [] emergencyType = "crime" -> 12
                [] OTHER -> 15
  IN  IF urgencyLevel >= 4 THEN base * 7
      ELSE IF urgencyLevel <= 2 THEN base * 13
      ELSE base * 10

\* calculateEstimatedArrival with variation (tenths of a minute, in -20..20):
\* Math.max(3, Math.round(baseTime + variation))
calculateEstimatedArrival(emergencyType, urgencyLevel, variation10) ==
  LET r == (baseTime10(emergencyType, urgencyLevel) + variation10 + 5) \div 10
  IN  IF r < 3 THEN 3 ELSE r

\* ------------------------------------------- dispatch service (India)
\* emergencyContacts['IN'], in declaration order
INContacts ==
  << [service |-> "Emergency Services (Direct Transfer)", priority |-> 1,
      capabilities |-> {"medical", "fire", "crime", "other"}],
     [service |-> "Police (Transfer)", priority |-> 2, capabilities |-> {"crime"}],
     [service |-> "Fire Department (Transfer)", priority |-> 2, capabilities |-> {"fire"}],
     [service |-> "Ambulance (Transfer)", priority |-> 2, capabilities |-> {"medical"}],
     [service |-> "Disaster Management (Transfer)", priority |-> 3,
      capabilities |-> {"other"}] >>

\* getRelevantServices(emergencyType, urgencyLevel) of the India version
getRelevantServices_IN(emergencyType, urgencyLevel) ==
  sortByPriority(
    SelectSeq(INContacts,
              LAMBDA c : \/ emergencyType \in c.capabilities
                         \/ "other" \in c.capabilities
                         \/ (urgencyLevel >= 4 /\ c.priority = 1)))

\* relevantServices.slice(0, 2)
slice2(s) == SubSeq(s, 1, Min(2, Len(s)))

RECURSIVE pushMissing(_, _)
\* for (const service of list) if (!servicesContacted.includes(service.service))
\*   servicesContacted.push(service.service)
pushMissing(contacted, list) ==
  IF list = << >> THEN contacted
  ELSE LET name == Head(list).service
           next == IF \E i \in 1..Len(contacted) : contacted[i] = name
                     THEN contacted ELSE Append(contacted, name)
       IN  pushMissing(next, Tail(list))

\* baseResponseTimes of the India version, in tenths of a minute after the
\* urgency adjustment
baseTime10_IN(emergencyType, urgencyLevel) ==
  LET base == CASE emergencyType = "medical" -> 12
                [] emergencyType = "fire" -> 8
                [] emergencyType = "crime" -> 15
                [] OTHER -> 20
  IN  IF urgencyLevel >= 4 THEN base * 6
      ELSE IF urgencyLevel <= 2 THEN base * 14
      ELSE base * 10

\* calculateEstimatedArrival of the India version with variation (tenths of
\* a minute, in -30..30): Math.max(5, Math.round(baseTime + variation))
calculateEstimatedArrival_IN(emergencyType, urgencyLevel, variation10) ==
  LET r == (baseTime10_IN(emergencyType, urgencyLevel) + variation10 + 5) \div 10
  IN  IF r < 5 THEN 5 ELSE r

Variations_IN == {-30, 0, 29}

\* the two versions of EmergencyDispatchService in emergencyDispatch.ts
Versions == {"US", "IN"}

\* the dispatchId values Date.now() and Math.random() can produce
DispatchIds == {"RESCUE-a", "RESCUE-b"}

EmergencyTypes == {"medical", "fire", "crime", "other", "flood"}

UrgencyLevels == 1..5

Variations == {-20, 0, 19}

VARIABLES
  version,           \* the version of the class whose method is running
  svcPc,             \* "idle" | "sendData" | "calling" | "transfer" | "returned"
  dispatchData,      \* the argument data: emergencyType, urgencyLevel; isNull
                     \* when the caller passed null or undefined
  dispatchId,        \* const dispatchId of the running call
  thrown,            \* history: the call returned from its catch block
  relevantServices,
  cursor,            \* position of the for-of loop in relevantServices
  servicesContacted,
  errors,
  response,          \* the DispatchResponse returned
  calls              \* history: the makeEmergencyCall invocations of this dispatch

service ==
  << version, svcPc, dispatchData, dispatchId, thrown, relevantServices, cursor,
     servicesContacted, errors, response, calls >>

NoResponse == [success |-> FALSE, dispatchId |-> "", servicesContacted |-> << >>,
               estimatedArrival |-> 0, errors |-> << >>]

\* the argument when the caller passes null or undefined
NullData == [emergencyType |-> "", urgencyLevel |-> 0, isNull |-> TRUE]

ServiceInit ==
  /\ version = "US"
  /\ svcPc = "idle"
  /\ dispatchData = [emergencyType |-> "other", urgencyLevel |-> 1, isNull |-> FALSE]
  /\ dispatchId = ""
  /\ thrown = FALSE
  /\ relevantServices = << >>
  /\ cursor = 0
  /\ servicesContacted = << >>
  /\ errors = << >>
  /\ response = NoResponse
  /\ calls = << >>

\* --------------------------------------------------------- hook state
VARIABLES
  hook,              \* which useVapi the component imports: "transfer" | "retrying"
  vapi,              \* useVapi: vapi ("null" | "instance")
  mounted,           \* VoiceEmergencyInterface is mounted
  currentStep,       \* App: currentStep
  hasSubmitted,      \* VoiceEmergencyInterface: hasSubmitted
  sdk,               \* the SDK's call: "idle" | "starting" | "active" | "stopping"
  isSessionActive,
  isMuted,
  callStatus,
  dispatchStatus,
  emergencyData,
  transferStatus,
  keepAliveInterval, \* the timer connectionPersistence.keepAliveInterval refers to:
                     \* "null" | "scheduled" | "cleared"
  orphanIntervals,   \* scheduled setInterval timers no state refers to any more
  reconnectTimers,   \* pending 3 s auto-reconnect timers
  runs,              \* bag of the suspended asynchronous runs (their pc)
  \* history
  attemptsStarted,   \* runs of initiateEmergencyTransfer in this session
  fallbackInvoked,   \* handleTransferError reached its fallback dispatch
  lastSessionEvent,  \* last of call-start / call-end / error / endCall
  submitLog,         \* calls of onEmergencyDataCollected in this mount
  msgLog             \* what the message or error handler did, or the result a
                     \* transfer resolved with, in the step it happened

config == << hook, vapi >>

component == << mounted, currentStep, hasSubmitted, submitLog >>

session == << sdk, isSessionActive, lastSessionEvent >>

persistence == << keepAliveInterval, orphanIntervals >>

history == << attemptsStarted, fallbackInvoked >>

hookVars ==
  << hook, vapi, mounted, currentStep, hasSubmitted, sdk, isSessionActive,
     isMuted, callStatus, dispatchStatus, emergencyData, transferStatus,
     keepAliveInterval, orphanIntervals, reconnectTimers, runs,
     attemptsStarted, fallbackInvoked, lastSessionEvent, submitLog, msgLog >>

\* useState initial value of transferStatus, and its reset value
IdleTransferStatus ==
  [status |-> "idle", attempts |-> 0, emergencyServiceConnected |-> FALSE,
   userConnected |-> FALSE, threeWayActive |-> FALSE]

\* The bindings of the first render, which the handlers registered by
\* useEffect(..., []) and the callbacks created in that render close over.
mountRender ==
  [vapi |-> "null", emergencyData |-> NoData, transferStatus |-> IdleTransferStatus,
   keepAliveInterval |-> "null"]

NoMsg == [kind |-> "none", text |-> << >>, statusBefore |-> "idle",
          started |-> << >>, stored |-> NoData]

NoSubmit == [count |-> 0, ok |-> TRUE, inLaterCall |-> FALSE]

\* State after the first commit and its effects: the SDK instance exists
\* iff VITE_VAPI_PUBLIC_KEY is configured.
HookInit ==
  /\ hook \in {"transfer", "retrying"}
  /\ vapi \in {"null", "instance"}
  /\ mounted = TRUE
  /\ currentStep = "voice"
  /\ hasSubmitted = FALSE
  /\ sdk = "idle"
  /\ isSessionActive = FALSE
  /\ isMuted = FALSE
  /\ callStatus = "idle"
  /\ dispatchStatus = "idle"
  /\ emergencyData = NoData
  /\ transferStatus = IdleTransferStatus
  /\ keepAliveInterval = "null"
  /\ orphanIntervals = 0
  /\ reconnectTimers = 0
  /\ runs = EmptyBag
  /\ attemptsStarted = 0
  /\ fallbackInvoked = FALSE
  /\ lastSessionEvent = "none"
  /\ submitLog = NoSubmit
  /\ msgLog = NoMsg

\* ------------------------------------------------- the asynchronous runs
\* What a handler changes before it returns: the state cells a transfer
\* writes, threaded through the calls the handler makes.
Cells ==
  [transferStatus |-> transferStatus, callStatus |-> callStatus,
   dispatchStatus |-> dispatchStatus, runs |-> runs,
   attemptsStarted |-> attemptsStarted, started |-> << >>]

Commit(c) ==
  /\ transferStatus' = c.transferStatus
  /\ callStatus' = c.callStatus
  /\ dispatchStatus' = c.dispatchStatus
  /\ runs' = c.runs
  /\ attemptsStarted' = c.attemptsStarted

AddRun(b, pc) == b (+) SetToBag({pc})

DelRun(b, pc) == b (-) SetToBag({pc})

Suspended == BagToSet(runs)

\* transfer hook, initiateCallTransfer up to its first await
initiateCallTransfer(c, data, reason) ==
  [c EXCEPT
     !.callStatus = "transferring",
     !.dispatchStatus = "dispatching",
     !.runs = AddRun(@, IF Dispatchable(data) THEN "awaitDispatch" ELSE "awaitTransfer"),
     !.started = Append(@, [reason |-> reason, data |-> data])]

\* const currentAttempt = transferStatus.attempts + 1, in the callback the
\* message handler and handleTransferError hold (the one of the first render)
currentAttempt == mountRender.transferStatus.attempts + 1

\* retrying hook, initiateEmergencyTransfer up to its first await
initiateEmergencyTransfer(c, data, reason) ==
  [c EXCEPT
     !.transferStatus = [@ EXCEPT !.status = "initiating",
                                  !.attempts = currentAttempt,
                                  !.userConnected = TRUE],
     !.callStatus = "transferring",
     !.dispatchStatus = IF Dispatchable(data) THEN "dispatching" ELSE @,
     !.runs = AddRun(@, IF Dispatchable(data) THEN "awaitDispatch" ELSE "awaitCall"),
     !.attemptsStarted = Bump(@),
     !.started = Append(@, [reason |-> reason, data |-> data])]

\* maintainConnectionPersistence: a new interval replaces the stored handle
maintainConnectionPersistence ==
  /\ keepAliveInterval' = "scheduled"
  /\ orphanIntervals' = IF keepAliveInterval = "scheduled"
                          THEN Min(orphanIntervals + 1, MaxIntervals)
                          ELSE orphanIntervals

\* clearInterval(handle) when the handle is not null
clearKeepAlive(handle) ==
  keepAliveInterval' = IF handle # "null" /\ keepAliveInterval = "scheduled"
                         THEN "cleared" ELSE keepAliveInterval

\* a transfer has been initiated and not been reset by a new call
TransferInitiated ==
  dispatchStatus # "idle" \/ callStatus \in {"transferring", "transferred"}

sessionActiveAfter_errorKeeps(event) == event \in {"call-start", "error"}

\* setIsSessionActive(...) as called by the handler of each event
sessionActiveAfter(event) == event = "call-start"

\* ------------------------------------------------------- user actions
NewSession ==
  /\ attemptsStarted' = 0
  /\ fallbackInvoked' = FALSE

\* startCall (the button is rendered while !isSessionActive)
startCall ==
  /\ mounted /\ ~isSessionActive
  /\ IF vapi = "null"
       THEN UNCHANGED << callStatus, emergencyData, dispatchStatus, transferStatus,
                         sdk, history >>
       ELSE /\ callStatus' = "connecting"
            /\ emergencyData' = NoData
            /\ dispatchStatus' = "idle"
            /\ transferStatus' = IF hook = "retrying" THEN IdleTransferStatus
                                                       ELSE transferStatus
            /\ sdk' = "starting"
            /\ NewSession
  /\ submitLog' = [submitLog EXCEPT !.inLaterCall = vapi # "null" /\ submitLog.count > 0]
  /\ msgLog' = NoMsg
  /\ UNCHANGED << service, config, mounted, currentStep, hasSubmitted, isSessionActive, lastSessionEvent, isMuted,
                  persistence, reconnectTimers, runs >>

\* startCall, the catch block: await vapi.start(...) rejected
startCallFails ==
  /\ mounted /\ sdk = "starting"
  /\ callStatus' = "ended"
  /\ sdk' = "idle"
  /\ msgLog' = NoMsg
  /\ UNCHANGED << service, config, component, isSessionActive, lastSessionEvent, isMuted,
                  dispatchStatus, emergencyData, transferStatus, persistence,
                  reconnectTimers, runs, history >>

\* endCall (the button is rendered while isSessionActive)
endCall ==
  /\ mounted /\ isSessionActive
  /\ IF vapi = "null"
       THEN UNCHANGED << session, callStatus, keepAliveInterval, transferStatus,
                         history >>
       ELSE /\ sdk' = IF sdk \in {"starting", "active"} THEN "stopping" ELSE sdk
            /\ callStatus' = "ended"
            /\ isSessionActive' = sessionActiveAfter("endCall")
            /\ IF hook = "retrying"
                 THEN /\ clearKeepAlive(keepAliveInterval)
                      /\ transferStatus' = IdleTransferStatus
                 ELSE UNCHANGED << keepAliveInterval, transferStatus >>
            /\ lastSessionEvent' = "endCall"
            /\ NewSession
  /\ msgLog' = NoMsg
  /\ UNCHANGED << service, config, component, isMuted, dispatchStatus, emergencyData,
                  orphanIntervals, reconnectTimers, runs >>

\* toggleMute (the button is rendered while isSessionActive)
toggleMute ==
  /\ mounted /\ isSessionActive
  /\ isMuted' = IF vapi = "null" THEN isMuted ELSE ~isMuted
  /\ msgLog' = NoMsg
  /\ UNCHANGED << service, config, component, session, callStatus, dispatchStatus,
                  emergencyData, transferStatus, persistence, reconnectTimers,
                  runs, history >>

\* ------------------------------------------------------- SDK events
\* vapiInstance.on('call-start')
onCallStart ==
  /\ mounted /\ sdk = "starting"
  /\ sdk' = "active"
  /\ callStatus' = "connected"
  /\ isSessionActive' = sessionActiveAfter("call-start")
  /\ lastSessionEvent' = "call-start"
  /\ IF hook = "retrying"
       THEN /\ transferStatus' = [transferStatus EXCEPT !.userConnected = TRUE]
            /\ maintainConnectionPersistence
       ELSE UNCHANGED << transferStatus, persistence >>
  /\ msgLog' = NoMsg
  /\ UNCHANGED << service, config, component, isMuted, dispatchStatus, emergencyData,
                  reconnectTimers, runs, history >>

\* vapiInstance.on('call-end'); the handler's clearInterval reads the
\* keepAliveInterval of the first render
onCallEnd ==
  /\ mounted /\ sdk \in {"active", "stopping"}
  /\ sdk' = "idle"
  /\ callStatus' = "ended"
  /\ isSessionActive' = sessionActiveAfter("call-end")
  /\ lastSessionEvent' = "call-end"
  /\ IF hook = "retrying"
       THEN /\ clearKeepAlive(mountRender.keepAliveInterval)
            /\ transferStatus' = [transferStatus EXCEPT !.userConnected = FALSE]
       ELSE UNCHANGED << keepAliveInterval, transferStatus >>
  /\ msgLog' = NoMsg
  /\ UNCHANGED << service, config, component, isMuted, dispatchStatus, emergencyData,
                  orphanIntervals, reconnectTimers, runs, history >>

ErrorTypes == {"ejected", "network"}

\* vapiInstance.on('error'); the auto-reconnect test reads transferStatus and
\* emergencyData of the first render
onError ==
  /\ mounted /\ sdk \in {"starting", "active"}
  /\ \E type \in ErrorTypes :
       /\ reconnectTimers' =
            IF hook = "retrying" /\ type = "ejected"
               /\ (mountRender.transferStatus.status # "idle"
                     \/ mountRender.emergencyData.emergencyType # "")
              THEN Bump(reconnectTimers) ELSE reconnectTimers
       /\ msgLog' = [NoMsg EXCEPT !.kind = "error", !.text = << type >>,
                                  !.statusBefore = transferStatus.status,
                                  !.stored = emergencyData]
  /\ sdk' = "idle"
  /\ callStatus' = "ended"
  /\ isSessionActive' = sessionActiveAfter("error")
  /\ lastSessionEvent' = "error"
  /\ IF hook = "retrying"
       THEN clearKeepAlive(mountRender.keepAliveInterval)
       ELSE UNCHANGED keepAliveInterval
  /\ UNCHANGED << service, config, component, isMuted, dispatchStatus, emergencyData,
                  transferStatus, orphanIntervals, runs, history >>

\* ------------------------------------------------------- SDK messages
FuncParams ==
  {[present |-> FALSE, val |-> NoData]} \cup {[present |-> TRUE, val |-> d] : d \in DataValues}

Log(kind, text, c, stored) ==
  [kind |-> kind, text |-> text, statusBefore |-> transferStatus.status,
   started |-> c.started, stored |-> stored]

\* transfer hook, on('message') with type 'transcript'
transferTranscript(text) ==
  LET cd == collectedData(text)
      c  == IF cd.ok THEN initiateCallTransfer(Cells, cd.obj, "data_collected") ELSE Cells
  IN  /\ emergencyData' = IF cd.ok THEN cd.obj ELSE emergencyData
      /\ Commit(c)
      /\ msgLog' = Log("transcript", text, c, emergencyData')

\* transfer hook, on('message') with type 'function-call'
transferFunctionCall(name, p) ==
  LET data == IF p.present THEN p.val ELSE mountRender.emergencyData
      c == IF name = "transferToEmergencyServices"
             THEN initiateCallTransfer(Cells, data, "function") ELSE Cells
  IN  /\ Commit(c)
      /\ msgLog' = Log(name, << >>, c, emergencyData)
      /\ UNCHANGED emergencyData

\* retrying hook, on('message') with type 'transcript'; the handler tests
\* transferStatus.status and spreads emergencyData of the first render
retryingTranscript(text) ==
  LET cd == collectedData(text)
      c1 == IF isEmergencyDetected(text) /\ mountRender.transferStatus.status = "idle"
              THEN initiateEmergencyTransfer(Cells, mountRender.emergencyData,
                                             "emergency_phrase_detected")
              ELSE Cells
      c2 == IF cd.ok
              THEN initiateEmergencyTransfer(c1, Spread(mountRender.emergencyData, cd.obj),
                                             "data_collected")
              ELSE c1
  IN  /\ emergencyData' = IF cd.ok THEN Spread(emergencyData, cd.obj) ELSE emergencyData
      /\ Commit(c2)
      /\ msgLog' = Log("transcript", text, c2, emergencyData')

\* retrying hook, on('message') with type 'function-call', the two
\* transfer functions
retryingFunctionCall(name, p) ==
  LET c == initiateEmergencyTransfer(Cells, Spread(mountRender.emergencyData, p.val), name)
  IN  /\ emergencyData' = Spread(emergencyData, p.val)
      /\ Commit(c)
      /\ msgLog' = Log(name, << >>, c, emergencyData')

onTranscript ==
  /\ mounted /\ sdk = "active"
  /\ \E text \in Transcripts :
       /\ IF hook = "transfer" THEN transferTranscript(text) ELSE retryingTranscript(text)
       /\ BagCardinality(runs') <= MaxRuns
  /\ UNCHANGED << service, config, component, session, isMuted, persistence,
                  reconnectTimers, fallbackInvoked >>

TransferFunctions == {"transferToEmergencyServices", "somethingElse"}

RetryingFunctions == {"emergencyServiceTransfer", "immediateEmergencyTransfer"}

onFunctionCall ==
  /\ mounted /\ sdk = "active"
  /\ \E p \in FuncParams :
       /\ IF hook = "transfer"
            THEN \E name \in TransferFunctions : transferFunctionCall(name, p)
            ELSE \E name \in RetryingFunctions : retryingFunctionCall(name, p)
       /\ BagCardinality(runs') <= MaxRuns
  /\ UNCHANGED << service, config, component, session, isMuted, persistence,
                  reconnectTimers, fallbackInvoked >>

\* retrying hook, function call updateEmergencyStatus
onUpdateEmergencyStatus ==
  /\ mounted /\ sdk = "active" /\ hook = "retrying"
  /\ \E keepConnection \in BOOLEAN :
       IF keepConnection THEN maintainConnectionPersistence
                         ELSE UNCHANGED persistence
  /\ msgLog' = [NoMsg EXCEPT !.kind = "updateEmergencyStatus",
                             !.statusBefore = transferStatus.status,
                             !.stored = emergencyData]
  /\ UNCHANGED << service, config, component, session, isMuted, callStatus, dispatchStatus,
                  emergencyData, transferStatus, reconnectTimers, runs, history >>

\* --------------------------------------------- steps of suspended runs
\* handleTransferError(error, attempt), up to its await or timer
handleTransferError(attempt) ==
  /\ transferStatus' = [transferStatus EXCEPT !.status = "failed", !.attempts = attempt]
  /\ IF attempt < 3
       THEN /\ runs' = AddRun(DelRun(runs, "awaitCall"), "retryTimer")
            /\ UNCHANGED fallbackInvoked
       ELSE /\ runs' = AddRun(DelRun(runs, "awaitCall"), "awaitFallback")
            /\ fallbackInvoked' = TRUE

\* emergencyDispatchService.dispatchEmergencyServices(...) resolves, for the
\* run that awaits it: initiateCallTransfer (line 352), initiateEmergencyTransfer
\* (line 318) or the fallback of handleTransferError (line 264)
dispatchResolves ==
  /\ mounted
  /\ \E pc \in Suspended, success \in BOOLEAN :
       /\ pc \in {"awaitDispatch", "awaitFallback"}
       /\ IF pc = "awaitFallback"
            THEN /\ dispatchStatus' = "dispatched"
                 /\ runs' = DelRun(runs, pc)
                 /\ UNCHANGED emergencyData
            ELSE /\ dispatchStatus' = IF success THEN "dispatched" ELSE dispatchStatus
                 /\ emergencyData' =
                      IF success THEN [emergencyData EXCEPT !.dispatchId = "RESCUE"]
                                 ELSE emergencyData
                 /\ runs' = AddRun(DelRun(runs, pc),
                                   IF hook = "transfer" THEN "awaitTransfer" ELSE "awaitCall")
  /\ msgLog' = NoMsg
  /\ UNCHANGED << service, config, component, session, isMuted, callStatus, transferStatus,
                  persistence, reconnectTimers, history >>

callStatusAfterTransfer_stays(success) ==
  IF success THEN "transferred" ELSE callStatus

\* setCallStatus(...) after await transferCallToEmergencyServices(data)
callStatusAfterTransfer(success) ==
  IF success THEN "transferred" ELSE "connected"

\* transfer hook: transferCallToEmergencyServices(data) resolves (it catches
\* its own errors and resolves with success = false)
transferResolves ==
  /\ mounted /\ "awaitTransfer" \in Suspended
  /\ \E success \in BOOLEAN :
       /\ callStatus' = callStatusAfterTransfer(success)
       /\ dispatchStatus' = IF success THEN dispatchStatus ELSE "failed"
       /\ msgLog' = [NoMsg EXCEPT !.kind = "transferResult",
                                  !.text = << IF success THEN "success" ELSE "failed" >>]
  /\ runs' = DelRun(runs, "awaitTransfer")
  /\ UNCHANGED << service, config, component, session, isMuted, emergencyData,
                  transferStatus, persistence, reconnectTimers, history >>

\* retrying hook: initiateEmergencyServiceCall(data, number) resolves with
\* success, and the three-way timer is set
emergencyCallConnects ==
  /\ mounted /\ "awaitCall" \in Suspended
  /\ transferStatus' = [transferStatus EXCEPT !.status = "connecting",
                                              !.emergencyServiceConnected = TRUE]
  /\ runs' = AddRun(DelRun(runs, "awaitCall"), "threeWayTimer")
  /\ msgLog' = NoMsg
  /\ UNCHANGED << service, config, component, session, isMuted, callStatus, dispatchStatus,
                  emergencyData, persistence, reconnectTimers, history >>

\* retrying hook: initiateEmergencyServiceCall resolves with success = false;
\* the throw is caught and handleTransferError(error, currentAttempt) runs
emergencyCallFails ==
  /\ mounted /\ "awaitCall" \in Suspended
  /\ handleTransferError(currentAttempt)
  /\ msgLog' = NoMsg
  /\ UNCHANGED << service, config, component, session, isMuted, callStatus, dispatchStatus,
                  emergencyData, persistence, reconnectTimers, attemptsStarted >>

\* retrying hook: the 5 s timer of handleTransferError fires and calls
\* initiateEmergencyTransfer(emergencyData, 'retry_attempt') of the render
\* handleTransferError was created in
retryTimerFires ==
  /\ mounted /\ "retryTimer" \in Suspended
  /\ Commit(initiateEmergencyTransfer([Cells EXCEPT !.runs = DelRun(runs, "retryTimer")],
                                      mountRender.emergencyData, "retry_attempt"))
  /\ msgLog' = NoMsg
  /\ UNCHANGED << service, config, component, session, isMuted, emergencyData, persistence,
                  reconnectTimers, fallbackInvoked >>

\* retrying hook: the 3 s timer of step 4 fires
threeWayTimerFires ==
  /\ mounted /\ "threeWayTimer" \in Suspended
  /\ runs' = DelRun(runs, "threeWayTimer")
  /\ transferStatus' = [transferStatus EXCEPT !.status = "connected",
                                              !.threeWayActive = TRUE]
  /\ callStatus' = "transferred"
  /\ msgLog' = NoMsg
  /\ UNCHANGED << service, config, component, session, isMuted, dispatchStatus,
                  emergencyData, persistence, reconnectTimers, history >>

\* ----------------------------------------------- component and App
shouldSubmit_unguarded ==
  emergencyData.emergencyType # "" /\ dispatchStatus = "dispatched"

\* the condition of the auto-submit effect of VoiceEmergencyInterface
shouldSubmit ==
  emergencyData.emergencyType # "" /\ dispatchStatus = "dispatched" /\ ~hasSubmitted

\* The auto-submit effect runs after a render in which its condition holds.
\* onEmergencyDataCollected is App.handleEmergencyDataCollected, which sets
\* currentStep to 'dispatch', or the handler of a parent that keeps the
\* component mounted.
autoSubmit ==
  /\ mounted /\ shouldSubmit
  /\ \E parent \in {"App", "host"} :
       currentStep' = IF parent = "App" THEN "dispatch" ELSE currentStep
  /\ hasSubmitted' = TRUE
  /\ submitLog' = [count |-> Bump(submitLog.count),
                   ok |-> submitLog.ok /\ emergencyData.emergencyType # ""
                                       /\ dispatchStatus = "dispatched",
                   inLaterCall |-> FALSE]
  /\ msgLog' = NoMsg
  /\ UNCHANGED << service, config, mounted, session, isMuted, callStatus, dispatchStatus,
                  emergencyData, transferStatus, persistence, reconnectTimers,
                  runs, history >>

\* App renders another step: VoiceEmergencyInterface unmounts and the
\* cleanup of the hook's effect runs (vapiInstance.stop(), and clearInterval
\* of the first render's keepAliveInterval)
unmount ==
  /\ mounted /\ currentStep # "voice"
  /\ mounted' = FALSE
  /\ sdk' = IF vapi = "instance" /\ sdk \in {"starting", "active"} THEN "stopping" ELSE sdk
  /\ clearKeepAlive(mountRender.keepAliveInterval)
  /\ msgLog' = NoMsg
  /\ UNCHANGED << service, config, currentStep, hasSubmitted, submitLog, isSessionActive,
                  lastSessionEvent, isMuted, callStatus, dispatchStatus,
                  emergencyData, transferStatus, orphanIntervals, reconnectTimers,
                  runs, history >>

HookNext ==
  \/ startCall
  \/ startCallFails
  \/ endCall
  \/ toggleMute
  \/ onCallStart
  \/ onCallEnd
  \/ onError
  \/ onTranscript
  \/ onFunctionCall
  \/ onUpdateEmergencyStatus
  \/ dispatchResolves
  \/ transferResolves
  \/ emergencyCallConnects
  \/ emergencyCallFails
  \/ retryTimerFires
  \/ threeWayTimerFires
  \/ autoSubmit
  \/ unmount

\* ------------------------------------------- dispatchEmergencyServices
HookIdle ==
  UNCHANGED hookVars

Call(contact) == [service |-> contact.service, priority |-> contact.priority,
                  resolved |-> FALSE, success |-> FALSE]

\* dispatchEmergencyServices(data) of either version, up to
\* await sendDataToDispatchCenter
dispatchEmergencyServices ==
  /\ svcPc \in {"idle", "returned"}
  /\ version' \in Versions
  /\ dispatchId' \in DispatchIds
  /\ \/ \E t \in EmergencyTypes, u \in UrgencyLevels :
          dispatchData' = [emergencyType |-> t, urgencyLevel |-> u, isNull |-> FALSE]
     \/ dispatchData' = NullData
  /\ svcPc' = "sendData"
  /\ thrown' = FALSE
  /\ relevantServices' = << >>
  /\ cursor' = 0
  /\ servicesContacted' = << >>
  /\ errors' = << >>
  /\ calls' = << >>
  /\ response' = NoResponse
  /\ HookIdle

successFlag_always(contacted) == TRUE

\* success: servicesContacted.length > 0
successFlag(contacted) == Len(contacted) > 0

\* the return statement of the try block
returnResponse(contacted, errs) ==
  /\ \E v \in Variations :
       response' = [success |-> successFlag(contacted),
                    dispatchId |-> dispatchId,
                    servicesContacted |-> contacted,
                    estimatedArrival |->
                      calculateEstimatedArrival(dispatchData.emergencyType,
                                                dispatchData.urgencyLevel, v),
                    errors |-> errs]
  /\ svcPc' = "returned"

caughtResponse_rethrows == NoResponse

\* the return statement of the catch block
caughtResponse ==
  [success |-> FALSE, dispatchId |-> dispatchId,
   servicesContacted |-> servicesContacted, estimatedArrival |-> 0,
   errors |-> << "System error" >>]

\* reading data.emergencyType of null throws a TypeError, which the catch
\* block of dispatchEmergencyServices turns into a response
returnCaught ==
  /\ response' = caughtResponse
  /\ thrown' = TRUE
  /\ svcPc' = "returned"

\* sendDataToDispatchCenter resolves (it catches its own TypeError when data
\* is null).  US: the services are selected and the loop makes its first
\* call.  India: initiateTwilioCallTransfer is called.
sendDataResolves ==
  /\ svcPc = "sendData"
  /\ IF version = "IN"
       THEN /\ svcPc' = "transfer"
            /\ UNCHANGED << thrown, relevantServices, cursor, calls, response >>
       ELSE IF dispatchData.isNull
         THEN /\ returnCaught
              /\ UNCHANGED << relevantServices, cursor, calls >>
         ELSE LET rs == getRelevantServices(dispatchData.emergencyType,
                                            dispatchData.urgencyLevel)
              IN  /\ relevantServices' = rs
                  /\ IF rs = << >>
                       THEN /\ returnResponse(servicesContacted, errors)
                            /\ UNCHANGED << cursor, calls >>
                       ELSE /\ cursor' = 1
                            /\ calls' = Append(calls, Call(rs[1]))
                            /\ svcPc' = "calling"
                            /\ UNCHANGED response
                  /\ UNCHANGED thrown
  /\ UNCHANGED << version, dispatchData, dispatchId, servicesContacted, errors >>
  /\ HookIdle

\* makeEmergencyCall(service, data) resolves: the rest of the iteration, and
\* either the next call or the return
makeEmergencyCallResolves ==
  /\ svcPc = "calling"
  /\ \E success \in BOOLEAN :
       LET name == relevantServices[cursor].service
           contacted == IF success THEN Append(servicesContacted, name)
                                   ELSE servicesContacted
           errs == IF success THEN errors ELSE Append(errors, name)
           resolved == [calls EXCEPT ![Len(calls)].resolved = TRUE,
                                     ![Len(calls)].success = success]
       IN  /\ servicesContacted' = contacted
           /\ errors' = errs
           /\ IF loopBreaks(dispatchData.urgencyLevel, contacted)
                 \/ cursor = Len(relevantServices)
                THEN /\ returnResponse(contacted, errs)
                     /\ calls' = resolved
                     /\ UNCHANGED cursor
                ELSE /\ cursor' = cursor + 1
                     /\ calls' = Append(resolved, Call(relevantServices[cursor + 1]))
                     /\ UNCHANGED << svcPc, response >>
  /\ UNCHANGED << version, dispatchData, dispatchId, thrown, relevantServices >>
  /\ HookIdle

\* India: initiateTwilioCallTransfer(data) resolves; the rest of the body is
\* synchronous (steps 3 to 5, or the catch block when data is null)
twilioTransferResolves ==
  /\ svcPc = "transfer"
  /\ \E success \in BOOLEAN :
       LET transferInitiated == success
           contacted1 == IF success
                           THEN Append(servicesContacted,
                                       "Emergency Services (Direct Transfer)")
                           ELSE servicesContacted
           errs == IF success THEN errors ELSE Append(errors, "Call transfer failed")
       IN  /\ errors' = errs
           /\ IF dispatchData.isNull
                THEN /\ servicesContacted' = contacted1
                     /\ response' = [transferInitiated |-> FALSE]
                                      @@ [caughtResponse EXCEPT
                                            !.servicesContacted = contacted1]
                     /\ thrown' = TRUE
                     /\ UNCHANGED relevantServices
                ELSE LET rs == getRelevantServices_IN(dispatchData.emergencyType,
                                                      dispatchData.urgencyLevel)
                         contacted2 == pushMissing(contacted1, slice2(rs))
                     IN  /\ relevantServices' = rs
                         /\ servicesContacted' = contacted2
                         /\ \E v \in Variations_IN :
                              response' =
                                [success |-> transferInitiated \/ Len(contacted2) > 0,
                                 dispatchId |-> dispatchId,
                                 transferInitiated |-> transferInitiated,
                                 servicesContacted |-> contacted2,
                                 estimatedArrival |->
                                   calculateEstimatedArrival_IN(
                                     dispatchData.emergencyType,
                                     dispatchData.urgencyLevel, v),
                                 errors |-> errs]
                         /\ UNCHANGED thrown
  /\ svcPc' = "returned"
  /\ UNCHANGED << version, dispatchData, dispatchId, cursor, calls >>
  /\ HookIdle

ServiceNext ==
  \/ dispatchEmergencyServices
  \/ sendDataResolves
  \/ makeEmergencyCallResolves
  \/ twilioTransferResolves

vars == << hookVars, service >>

Init == HookInit /\ ServiceInit

\* one mounted component, the service idle
DispatchInit == Init /\ hook = "transfer" /\ vapi = "instance"

Next == HookNext

Spec == Init /\ [][Next]_vars

\* the dispatch service on its own, called with every emergency type and
\* urgency level
SpecDispatch == DispatchInit /\ [][ServiceNext]_vars

\* the awaited timers of the simulated calls always fire
SpecDispatchLive ==
  /\ DispatchInit
  /\ [][ServiceNext]_vars
  /\ WF_vars(sendDataResolves)
  /\ WF_vars(makeEmergencyCallResolves)
  /\ WF_vars(twilioTransferResolves)

\* ------------------------------------------------------------ claims
Retrying == hook = "retrying"

\* C1: in the retrying hook at most 3 transfer attempts are made in one
\* session: transferStatus.attempts never exceeds 3 and no fourth run of
\* initiateEmergencyTransfer is started.
C1_AtMostThreeAttempts ==
  Retrying => (transferStatus.attempts <= 3 /\ attemptsStarted <= 3)

\* C2: in the retrying hook, once the third attempt of a session has failed
\* the fallback dispatch of handleTransferError has been invoked, and no
\* further retry is scheduled.
C2_FallbackAfterThirdFailure ==
  (Retrying /\ attemptsStarted >= 3)
    => /\ transferStatus.status = "failed" => fallbackInvoked
       /\ "retryTimer" \notin Suspended

\* C3: in both hooks no completed transfer leaves dispatchStatus at
\* 'dispatching': when every run has finished its asynchronous steps,
\* dispatchStatus is not 'dispatching'.
C3_NoTransferLeavesDispatching ==
  runs = EmptyBag => dispatchStatus # "dispatching"

\* C4: while a call is active and a transfer has been initiated, vapi.stop
\* is invoked only by endCall: the cleanup of the hook's effect (the other
\* caller of stop) does not run in such a state.
C4_StopOnlyByEndCall ==
  [][ (mounted /\ ~mounted' /\ vapi = "instance")
        => ~(isSessionActive /\ TransferInitiated) ]_vars

PhraseStarted ==
  \E i \in 1..Len(msgLog.started) :
    msgLog.started[i].reason = "emergency_phrase_detected"

\* C5: in the retrying hook a transcript with an emergency phrase starts a
\* transfer only when transferStatus.status is 'idle'.
C5_PhraseStartsOnlyWhenIdle ==
  (Retrying /\ msgLog.kind = "transcript" /\ PhraseStarted)
    => msgLog.statusBefore = "idle"

PrescribedObject == [emergencyType |-> "medical", location |-> "MG Road", dispatchId |-> ""]

\* C6: in the transfer hook a transcript with the marker followed by a JSON
\* object in the prescribed format stores the parsed object as emergencyData
\* and starts a transfer with that object and reason 'data_collected'.
C6_PrescribedDataStoredAndTransferred ==
  (hook = "transfer" /\ msgLog.kind = "transcript"
     /\ msgLog.text = << Marker >> \o PrescribedJson)
    => /\ msgLog.stored = PrescribedObject
       /\ msgLog.started = << [reason |-> "data_collected", data |-> PrescribedObject] >>

\* C7: VoiceEmergencyInterface calls onEmergencyDataCollected at most once
\* per mount, and only when emergencyData.emergencyType is set and
\* dispatchStatus = 'dispatched'.
C7_SubmitAtMostOnce ==
  submitLog.count <= 1 /\ submitLog.ok

\* C7 witness: the condition of the effect holds again in a later call of the
\* mount that has already submitted
C7_Witness ==
  /\ mounted /\ submitLog.count = 1 /\ submitLog.inLaterCall
  /\ emergencyData.emergencyType # "" /\ dispatchStatus = "dispatched"

\* C8: in both hooks isSessionActive is true exactly when the most recent of
\* call-start, call-end, error and endCall (with an SDK) was call-start.
C8_SessionActiveIffLastWasCallStart ==
  isSessionActive <=> (lastSessionEvent = "call-start")

\* C8 witness: the session is still active after a transfer has completed
\* and the microphone has been toggled
C8_Witness ==
  /\ isSessionActive /\ lastSessionEvent = "call-start"
  /\ callStatus = "transferred" /\ isMuted /\ dispatchStatus = "dispatched"

\* C9: in the US dispatch, makeEmergencyCall is invoked in non-decreasing
\* contact priority, never twice for one contact, and only after every
\* earlier call has resolved.
C9_CallsInPriorityOrder ==
  \A i, j \in 1..Len(calls) :
    i < j => /\ calls[i].priority <= calls[j].priority
             /\ calls[i].service # calls[j].service
             /\ calls[i].resolved

\* C9 witness: a third contact, of a lower priority class than the first, is
\* called after two calls failed
C9_Witness ==
  /\ Len(calls) >= 3 /\ svcPc = "calling"
  /\ calls[1].priority < calls[2].priority /\ calls[2].priority < calls[3].priority

\* C10: in the US dispatch with urgencyLevel >= 4 the loop stops only when
\* two services have been contacted or the list is exhausted; with
\* urgencyLevel < 4 it stops after the first successful contact.
C10_CriticalTriesTwoServices ==
  svcPc = "returned" =>
    IF dispatchData.urgencyLevel >= 4
      THEN Len(servicesContacted) >= 2 \/ Len(calls) = Len(relevantServices)
      ELSE Len(servicesContacted) = 1 \/ Len(calls) = Len(relevantServices)

\* C11: in the US dispatch, when no exception was thrown, the returned
\* success flag is true exactly when at least one simulated call succeeded,
\* which is exactly when servicesContacted is not empty.
C11_SuccessIffContacted ==
  (version = "US" /\ svcPc = "returned" /\ ~thrown)
    => /\ response.success <=> (\E i \in 1..Len(calls) : calls[i].success)
       /\ response.success <=> (response.servicesContacted # << >>)

\* C11 witness: every relevant service was called and every call failed
C11_Witness ==
  /\ version = "US" /\ svcPc = "returned" /\ ~thrown
  /\ Len(calls) = Len(relevantServices) /\ Len(calls) >= 3
  /\ \A i \in 1..Len(calls) : ~calls[i].success
  /\ ~response.success /\ Len(response.errors) = Len(calls)

C12_Response ==
  svcPc = "returned" =>
    /\ dispatchId \in DispatchIds
    /\ response.dispatchId = dispatchId
    /\ thrown => /\ ~response.success
                 /\ response.estimatedArrival = 0
                 /\ Len(response.errors) = 1
    /\ ~thrown => /\ response.estimatedArrival > 0
                  /\ \A i \in 1..Len(calls) :
                       ~calls[i].success =>
                         \E k \in 1..Len(response.errors) :
                           response.errors[k] = calls[i].service
                  /\ (version = "IN" /\ ~response.transferInitiated)
                       => response.errors = << "Call transfer failed" >>

\* C12: in both versions every call of dispatchEmergencyServices resolves
\* with a response that carries the dispatchId generated at entry; failed
\* calls are listed in errors, and a call that threw inside the body returns
\* success = false, estimatedArrival = 0 and exactly one error.
C12_AlwaysResolves ==
  /\ []C12_Response
  /\ (svcPc \in {"sendData", "calling", "transfer"}) ~> (svcPc = "returned")

\* C12 witness: the India version was called with null, the Twilio transfer
\* succeeded, and the body threw afterwards
C12_Witness ==
  /\ version = "IN" /\ svcPc = "returned" /\ thrown
  /\ response.servicesContacted # << >> /\ response.dispatchId = "RESCUE-b"

\* C13: in the retrying hook, when an 'ejected' error arrives while a
\* transfer is in progress (transferStatus.status is not 'idle') or an
\* emergency type has been collected, the error handler schedules the
\* 3-second timer that restarts the call.
C13_EjectedSchedulesReconnect ==
  (Retrying /\ msgLog.kind = "error" /\ msgLog.text = << "ejected" >>
     /\ (msgLog.statusBefore # "idle" \/ msgLog.stored.emergencyType # ""))
    => reconnectTimers > 0

\* C14: in the retrying hook, after a call-end, an error, endCall or the
\* unmount, no keep-alive interval created by maintainConnectionPersistence
\* remains scheduled.
C14_KeepAliveCleared ==
  (Retrying /\ (lastSessionEvent \in {"call-end", "error", "endCall"} \/ ~mounted))
    => (keepAliveInterval # "scheduled" /\ orphanIntervals = 0)

\* C15: in both hooks callStatus in {'connected', 'transferring',
\* 'transferred'} implies isSessionActive; in particular callStatus stays
\* 'ended' after the call has ended although a transfer was in flight.
C15_CallStatusImpliesSessionActive ==
  callStatus \in {"connected", "transferring", "transferred"} => isSessionActive

\* C16: in the retrying hook, after endCall has run and until the next
\* call starts, transferStatus keeps its reset value, whatever call or timer
\* was pending when endCall ran.
C16_TransferStatusStaysReset ==
  (Retrying /\ lastSessionEvent = "endCall") => transferStatus = IdleTransferStatus

\* C17: in the retrying hook at most one run of initiateEmergencyTransfer is
\* in progress (suspended at one of its awaits) at any time, and one
\* transcript message starts at most one attempt.
C17_AtMostOneRunInProgress ==
  Retrying =>
    /\ CopiesIn("awaitDispatch", runs) + CopiesIn("awaitCall", runs) <= 1
    /\ msgLog.kind = "transcript" => Len(msgLog.started) <= 1

\* C18: in the retrying hook transferStatus.threeWayActive implies
\* transferStatus.emergencyServiceConnected and transferStatus.userConnected.
C18_ThreeWayImpliesBothConnected ==
  (Retrying /\ transferStatus.threeWayActive)
    => (transferStatus.emergencyServiceConnected /\ transferStatus.userConnected)

\* C19: in the retrying hook the k-th attempt started in a session
\* (k = 1, 2, 3) sets transferStatus.attempts to k: while the attempt that
\* was started last is initiating, attempts is the number of attempts
\* started.
C19_AttemptNumberCounts ==
  (Retrying /\ transferStatus.status = "initiating" /\ attemptsStarted \in 1..3)
    => transferStatus.attempts = attemptsStarted

\* C20: in the transfer hook, when the run of initiateCallTransfer completes,
\* callStatus is 'transferred' if the simulated Twilio transfer succeeded;
\* if it failed, callStatus is 'connected' and dispatchStatus is 'failed'.
C20_TransferFinalState ==
  (hook = "transfer" /\ msgLog.kind = "transferResult")
    => IF msgLog.text = << "success" >>
         THEN callStatus = "transferred"
         ELSE callStatus = "connected" /\ dispatchStatus = "failed"

\* C20 witness: the transfer failed after the dispatch had succeeded, in a
\* call that is still active
C20_Witness ==
  /\ hook = "transfer" /\ msgLog.kind = "transferResult"
  /\ msgLog.text = << "failed" >> /\ emergencyData.dispatchId # ""
  /\ isSessionActive /\ callStatus = "connected" /\ dispatchStatus = "failed"

====
